---- MODULE Spec2Model ----
(***************************************************************************)
(* A model of awx/main/models/notifications.py: the NotificationTemplate   *)
(* entity (save with message merge and two-phase encryption of password    *)
(* parameters, send, display_notification_configuration) and the           *)
(* JobNotificationMixin dispatch (send_notification_templates with the     *)
(* transaction's on-commit queue).                                         *)
(*                                                                         *)
(* Python values: a dict is a function on its keys, a str is a sequence of *)
(* chunks (the empty str is << >>), None is the record NoneVal.            *)
(* The strs of a messages dict, which the code tests for truth and against *)
(* None, are wrapped: Str(text).                                           *)
(***************************************************************************)
EXTENDS Integers, Sequences, FiniteSets, TLC

NoneVal == [py_none |-> TRUE]

EmptyDict == << >>

IsNone(x) == x = NoneVal

\* A str held in a messages dict: the record of its text.
Str(text) == [str |-> text]

IsStr(x) == DOMAIN x = {"str"}

\* Python truthiness of None, a dict or a str.
Truthy(x) == /\ ~IsNone(x)
             /\ IF IsStr(x) THEN x.str # << >> ELSE DOMAIN x # {}

\* d.get(k, default)
DictGet(d, k, default) == IF k \in DOMAIN d THEN d[k] ELSE default

\* d[k] = v
DictSet(d, k, v) == [x \in DOMAIN d \cup {k} |-> IF x = k THEN v ELSE d[x]]

\* d without the key k (d.pop(k) as a statement)
DictDel(d, k) == [x \in DOMAIN d \ {k} |-> d[x]]

(***************************************************************************)
(* Strings of the configuration: a sequence of chunks. The marker          *)
(* '$encrypted$' is one chunk, so startswith('$encrypted$') is a test of   *)
(* the first chunk.                                                        *)
(***************************************************************************)
MARK == "$encrypted$"

EmptyStr == << >>

StartsWithMarker(v) == Len(v) > 0 /\ v[1] = MARK

\* The record-bound key: derived from the row's pk and the field name.
EncryptionKey(pk, field) == "key:" \o ToString(pk) \o ":" \o field

\* awx.main.utils.encrypt_field(instance, 'notification_configuration', subfield):
\* an empty value or one that carries the marker is returned as it is.
encrypt_field(pk, config, field) ==
    LET value == config[field]
    IN IF value = EmptyStr \/ StartsWithMarker(value)
       THEN value
       ELSE <<MARK, EncryptionKey(pk, field)>> \o value

\* Whether decrypt_field raises: a marked value that is no ciphertext under
\* the instance's key.
decrypt_fails(pk, config, field) ==
    LET value == config[field]
    IN /\ StartsWithMarker(value)
       /\ ~(Len(value) >= 2 /\ value[2] = EncryptionKey(pk, field))

\* awx.main.utils.decrypt_field: a value without the marker is returned as it is.
decrypt_field(pk, config, field) ==
    LET value == config[field]
    IN IF value = EmptyStr \/ ~StartsWithMarker(value)
       THEN value
       ELSE SubSeq(value, 3, Len(value))

(***************************************************************************)
(* The backend catalog entry of the template's notification_type: its      *)
(* init_parameters, recipient_parameter and sender_parameter.              *)
(***************************************************************************)
NotificationType == "slack"

init_parameters ==
    [token    |-> [label |-> "Token", type |-> "password"],
     channels |-> [label |-> "Destination Channels", type |-> "list"],
     sender   |-> [label |-> "Sender", type |-> "string"],
     color    |-> [label |-> "Color", type |-> "string", default |-> <<"blue">>]]

recipient_parameter == "channels"

sender_parameter == "sender"

\* The order in which the init_parameters are iterated.
ParameterOrder == <<"token", "channels", "sender", "color">>

\* filter(lambda x: init_parameters[x]['type'] == "password", init_parameters)
PasswordFields == SelectSeq(ParameterOrder, LAMBDA f : init_parameters[f].type = "password")

EventKinds == <<"started", "success", "error">>

MsgTypes == <<"message", "body">>

\* NotificationTemplate.default_messages
default_messages == [started |-> NoneVal, success |-> NoneVal, error |-> NoneVal]

(***************************************************************************)
(* NotificationTemplate.save: the merge of the stored messages into the    *)
(* incoming ones (lines 126-142).                                          *)
(***************************************************************************)
\* A merge in which a non-empty stored sub-field wins over the incoming one.
RECURSIVE MergeMsgTypes_StoredWins(_, _, _)
MergeMsgTypes_StoredWins(old_event_msgs, new_event_msgs, i) ==
    IF i > Len(MsgTypes) THEN new_event_msgs
    ELSE LET msg_type == MsgTypes[i]
             merged == IF Truthy(DictGet(old_event_msgs, msg_type, NoneVal))
                       THEN DictSet(new_event_msgs, msg_type, old_event_msgs[msg_type])
                       ELSE new_event_msgs
         IN MergeMsgTypes_StoredWins(old_event_msgs, merged, i + 1)

\* The inner loop over ['message', 'body'] (lines 139-141).
RECURSIVE MergeMsgTypes(_, _, _)
MergeMsgTypes(old_event_msgs, new_event_msgs, i) ==
    IF i > Len(MsgTypes) THEN new_event_msgs
    ELSE LET msg_type == MsgTypes[i]
             merged == IF msg_type \notin DOMAIN new_event_msgs
                          /\ Truthy(DictGet(old_event_msgs, msg_type, NoneVal))
                       THEN DictSet(new_event_msgs, msg_type, old_event_msgs[msg_type])
                       ELSE new_event_msgs
         IN MergeMsgTypes(old_event_msgs, merged, i + 1)

\* A pass that leaves out the setdefault of line 142.
MergeEvent_NoSetdefault(old_messages, new_messages, event) ==
    LET new_entry == DictGet(new_messages, event, EmptyDict)
        old_entry == DictGet(old_messages, event, EmptyDict)
    IN IF ~Truthy(new_entry) /\ Truthy(old_entry)
       THEN DictSet(new_messages, event, old_messages[event])
       ELSE IF Truthy(new_entry) /\ Truthy(old_entry)
       THEN DictSet(new_messages, event,
                    MergeMsgTypes(old_messages[event], new_messages[event], 1))
       ELSE new_messages

\* A pass that lets an empty incoming entry stand where the stored one is not
\* empty.
MergeEvent_NoRestore(old_messages, new_messages, event) ==
    LET new_entry == DictGet(new_messages, event, EmptyDict)
        old_entry == DictGet(old_messages, event, EmptyDict)
        merged == IF Truthy(new_entry) /\ Truthy(old_entry)
                  THEN DictSet(new_messages, event,
                               MergeMsgTypes(old_messages[event], new_messages[event], 1))
                  ELSE new_messages
    IN IF event \in DOMAIN merged THEN merged ELSE DictSet(merged, event, NoneVal)

\* A pass that stores None for every entry that is empty on both sides.
MergeEvent_NormalisesEmpty(old_messages, new_messages, event) ==
    LET new_entry == DictGet(new_messages, event, EmptyDict)
        old_entry == DictGet(old_messages, event, EmptyDict)
    IN IF ~Truthy(new_entry) /\ Truthy(old_entry)
       THEN DictSet(new_messages, event, old_messages[event])
       ELSE IF Truthy(new_entry) /\ Truthy(old_entry)
       THEN DictSet(new_messages, event,
                    MergeMsgTypes(old_messages[event], new_messages[event], 1))
       ELSE IF Truthy(new_entry) THEN new_messages
       ELSE DictSet(new_messages, event, NoneVal)

\* One pass of the loop over the event kinds (lines 133-142).
MergeEvent(old_messages, new_messages, event) ==
    LET new_entry == DictGet(new_messages, event, EmptyDict)
        old_entry == DictGet(old_messages, event, EmptyDict)
    IN IF ~Truthy(new_entry) /\ Truthy(old_entry)
       THEN DictSet(new_messages, event, old_messages[event])
       ELSE LET merged == IF Truthy(new_entry) /\ Truthy(old_entry)
                          THEN DictSet(new_messages, event,
                                       MergeMsgTypes(old_messages[event], new_messages[event], 1))
                          ELSE new_messages
            IN IF event \in DOMAIN merged THEN merged
               ELSE DictSet(merged, event, NoneVal)

RECURSIVE MergeEvents(_, _, _)
MergeEvents(old_messages, new_messages, i) ==
    IF i > Len(EventKinds) THEN new_messages
    ELSE MergeEvents(old_messages, MergeEvent(old_messages, new_messages, EventKinds[i]), i + 1)

\* Lines 131-142: nothing is merged when either side is None.
MergeMessages(old_messages, new_messages) ==
    IF ~IsNone(old_messages) /\ ~IsNone(new_messages)
    THEN MergeEvents(old_messages, new_messages, 1)
    ELSE new_messages

(***************************************************************************)
(* The in-memory template object is the record                             *)
(*   [pk, config, messages, saved]                                         *)
(* (pk 0 is None; saved holds the _saved_config_<field> attributes), the   *)
(* stored row is [exists, config, messages].                               *)
(***************************************************************************)
NoRow == [exists |-> FALSE, config |-> EmptyDict, messages |-> NoneVal]

\* kwargs.get('update_fields', []): given is whether the caller passed the list.
NoUpdateFields == [given |-> FALSE, fields |-> {}]

UpdateFields(S) == [given |-> TRUE, fields |-> S]

\* Lines 155-156 and 164-165: the append reaches super().save() only through
\* the caller's own list.
AppendUpdateField(uf, name) ==
    IF uf.given THEN [uf EXCEPT !.fields = @ \cup {name}] ELSE uf

\* A first loop that keeps the value of a new instance in the configuration.
RECURSIVE PasswordLoop_NoBlank(_, _, _, _)
PasswordLoop_NoBlank(o, new_instance, uf, i) ==
    IF i > Len(PasswordFields) THEN [o |-> o, uf |-> uf, exc |-> "none"]
    ELSE LET field == PasswordFields[i]
         IN IF field \notin DOMAIN o.config
            THEN [o |-> o, uf |-> uf, exc |-> "KeyError"]
            ELSE IF StartsWithMarker(o.config[field])
            THEN PasswordLoop_NoBlank(o, new_instance, uf, i + 1)
            ELSE IF new_instance
            THEN PasswordLoop_NoBlank([o EXCEPT !.saved = DictSet(@, field, o.config[field])],
                                      new_instance, uf, i + 1)
            ELSE PasswordLoop_NoBlank(
                     [o EXCEPT !.config = DictSet(@, field, encrypt_field(o.pk, o.config, field))],
                     new_instance, AppendUpdateField(uf, "notification_configuration"), i + 1)

\* A first loop that encrypts nothing in an update.
RECURSIVE PasswordLoop_NoEncrypt(_, _, _, _)
PasswordLoop_NoEncrypt(o, new_instance, uf, i) ==
    IF i > Len(PasswordFields) THEN [o |-> o, uf |-> uf, exc |-> "none"]
    ELSE LET field == PasswordFields[i]
         IN IF field \notin DOMAIN o.config
            THEN [o |-> o, uf |-> uf, exc |-> "KeyError"]
            ELSE IF StartsWithMarker(o.config[field])
            THEN PasswordLoop_NoEncrypt(o, new_instance, uf, i + 1)
            ELSE IF new_instance
            THEN PasswordLoop_NoEncrypt([o EXCEPT !.saved = DictSet(@, field, o.config[field]),
                                                  !.config = DictSet(@, field, EmptyStr)],
                                        new_instance, uf, i + 1)
            ELSE PasswordLoop_NoEncrypt(o, new_instance,
                                        AppendUpdateField(uf, "notification_configuration"), i + 1)

\* The first loop over the password parameters (lines 144-156):
\* [o, uf, exc] after the fields from position i on.
RECURSIVE PasswordLoop(_, _, _, _)
PasswordLoop(o, new_instance, uf, i) ==
    IF i > Len(PasswordFields) THEN [o |-> o, uf |-> uf, exc |-> "none"]
    ELSE LET field == PasswordFields[i]
         IN IF field \notin DOMAIN o.config
            THEN [o |-> o, uf |-> uf, exc |-> "KeyError"]
            ELSE IF StartsWithMarker(o.config[field])
            THEN PasswordLoop(o, new_instance, uf, i + 1)
            ELSE IF new_instance
            THEN PasswordLoop([o EXCEPT !.saved = DictSet(@, field, o.config[field]),
                                        !.config = DictSet(@, field, EmptyStr)],
                              new_instance, uf, i + 1)
            ELSE PasswordLoop([o EXCEPT !.config = DictSet(@, field, encrypt_field(o.pk, o.config, field))],
                              new_instance,
                              AppendUpdateField(uf, "notification_configuration"),
                              i + 1)

\* A second loop that leaves the blanked values as they are.
RestoreSavedLoop_KeepsBlank(o, i) == o

\* The second loop, after the first write of a new instance (lines 159-165).
RECURSIVE RestoreSavedLoop(_, _)
RestoreSavedLoop(o, i) ==
    IF i > Len(PasswordFields) THEN o
    ELSE LET field == PasswordFields[i]
             saved_value == DictGet(o.saved, field, EmptyStr)
         IN RestoreSavedLoop([o EXCEPT !.config = DictSet(@, field, saved_value)], i + 1)

\* The primary key the INSERT assigns.
NewPk == 1

\* super().save(*args, **kwargs) (line 157): an INSERT of every column for an
\* object without pk, else an UPDATE of the columns of update_fields (all of
\* them when the caller gave none, none when the list is empty).
\* [o, row, written]
SuperSave(o, row, uf) ==
    IF uf.given /\ uf.fields = {}
    THEN [o |-> o, row |-> row, written |-> FALSE]
    ELSE IF o.pk = 0
    THEN [o |-> [o EXCEPT !.pk = NewPk],
          row |-> [exists |-> TRUE, config |-> o.config, messages |-> o.messages],
          written |-> TRUE]
    ELSE [o |-> o,
          row |-> [exists |-> TRUE,
                   config |-> IF ~uf.given \/ "notification_configuration" \in uf.fields
                              THEN o.config ELSE row.config,
                   messages |-> IF ~uf.given \/ "messages" \in uf.fields
                                THEN o.messages ELSE row.messages],
          written |-> TRUE]

\* NotificationTemplate.save (lines 121-166), the recursive second save of a
\* new instance included: [o, row, writes, exc], writes being every version of
\* the row the call wrote, in order.
RECURSIVE save(_, _, _)
save(o, row, uf) ==
    LET new_instance == o.pk = 0
        o1 == IF ~new_instance
              THEN [o EXCEPT !.messages = MergeMessages(row.messages, o.messages)]
              ELSE o
        pw == PasswordLoop(o1, new_instance, uf, 1)
    IN IF pw.exc # "none"
       THEN [o |-> pw.o, row |-> row, writes |-> << >>, exc |-> pw.exc]
       ELSE LET w == SuperSave(pw.o, row, pw.uf)
                first == IF w.written THEN <<w.row>> ELSE << >>
            IN IF ~new_instance
               THEN [o |-> w.o, row |-> w.row, writes |-> first, exc |-> "none"]
               ELSE LET o2 == RestoreSavedLoop(w.o, 1)
                        uf2 == UpdateFields(IF Len(PasswordFields) > 0
                                            THEN {"notification_configuration"} ELSE {})
                        second == save(o2, w.row, uf2)
                    IN [o |-> second.o, row |-> second.row,
                        writes |-> first \o second.writes, exc |-> second.exc]

(***************************************************************************)
(* NotificationTemplate.send (lines 181-200). The value of the recipient   *)
(* parameter is [list, val]: a list of strs or one str.                    *)
(***************************************************************************)
\* A send that goes on with the stored value when decrypting it fails.
RECURSIVE DecryptLoop_IgnoresFailure(_, _)
DecryptLoop_IgnoresFailure(o, i) ==
    IF i > Len(PasswordFields) THEN [o |-> o, exc |-> "none"]
    ELSE LET field == PasswordFields[i]
         IN IF field \notin DOMAIN o.config \/ decrypt_fails(o.pk, o.config, field)
            THEN DecryptLoop_IgnoresFailure(o, i + 1)
            ELSE DecryptLoop_IgnoresFailure(
                     [o EXCEPT !.config = DictSet(@, field, decrypt_field(o.pk, o.config, field))],
                     i + 1)

\* Defaults that replace what the configuration gives.
RECURSIVE ApplyDefaults_Overwrites(_, _)
ApplyDefaults_Overwrites(notification_configuration, i) ==
    IF i > Len(ParameterOrder) THEN notification_configuration
    ELSE LET field == ParameterOrder[i]
             params == init_parameters[field]
         IN ApplyDefaults_Overwrites(IF "default" \in DOMAIN params
                                     THEN DictSet(notification_configuration, field, params.default)
                                     ELSE notification_configuration,
                                     i + 1)

\* Lines 182-187: [o, exc] after the password fields from position i on; each
\* decrypted value is assigned to the object's own notification_configuration.
RECURSIVE DecryptLoop(_, _)
DecryptLoop(o, i) ==
    IF i > Len(PasswordFields) THEN [o |-> o, exc |-> "none"]
    ELSE LET field == PasswordFields[i]
         IN IF field \notin DOMAIN o.config THEN DecryptLoop(o, i + 1)
            ELSE IF decrypt_fails(o.pk, o.config, field)
            THEN [o |-> o, exc |-> "InvalidToken"]
            ELSE DecryptLoop([o EXCEPT !.config = DictSet(@, field, decrypt_field(o.pk, o.config, field))],
                             i + 1)

\* Lines 193-196: the default of every absent parameter that declares one.
RECURSIVE ApplyDefaults(_, _)
ApplyDefaults(notification_configuration, i) ==
    IF i > Len(ParameterOrder) THEN notification_configuration
    ELSE LET field == ParameterOrder[i]
             params == init_parameters[field]
         IN ApplyDefaults(IF field \notin DOMAIN notification_configuration
                             /\ "default" \in DOMAIN params
                          THEN DictSet(notification_configuration, field, params.default)
                          ELSE notification_configuration,
                          i + 1)

NoCall == [called |-> FALSE, attempts |-> 0, returned |-> "",
           params |-> EmptyDict, recipients |-> << >>,
           sender |-> NoneVal, subject |-> EmptyStr, body |-> EmptyStr]

\* send(subject, body) with what the backend's send_messages answers (a count
\* of deliveries, or "error" for a delivery error): [o, exc, call, result].
\* call records the constructor parameters, the message and the number of
\* send_messages calls; result is what send returns.
send(o, subject, body, backend_answer) ==
    LET d == DecryptLoop(o, 1)
    IN IF d.exc # "none"
       THEN [o |-> d.o, exc |-> d.exc, call |-> NoCall, result |-> NoneVal]
       ELSE IF recipient_parameter \notin DOMAIN d.o.config
       THEN [o |-> d.o, exc |-> "KeyError", call |-> NoCall, result |-> NoneVal]
       ELSE LET popped == d.o.config[recipient_parameter]
                recipients == IF popped.list THEN popped.val ELSE <<popped.val>>
                sender == DictGet(d.o.config, sender_parameter, NoneVal)
                config1 == DictDel(DictDel(d.o.config, recipient_parameter), sender_parameter)
                o1 == [d.o EXCEPT !.config = config1]
                call == [called |-> TRUE, attempts |-> 1, returned |-> backend_answer,
                         params |-> ApplyDefaults(config1, 1),
                         recipients |-> recipients, sender |-> sender,
                         subject |-> subject, body |-> body]
            IN IF backend_answer = "error"
               THEN [o |-> o1, exc |-> "DeliveryError", call |-> call, result |-> NoneVal]
               ELSE [o |-> o1, exc |-> "none", call |-> call,
                     result |-> [count |-> backend_answer]]

(***************************************************************************)
(* NotificationTemplate.display_notification_configuration (lines 202-207) *)
(***************************************************************************)
\* force_text of a configuration value: a list shows as its repr.
force_text(field, value) ==
    IF init_parameters[field].type = "list"
    THEN IF value.list THEN <<"[...]">> ELSE value.val
    ELSE value

RECURSIVE MaskLoop(_, _)
MaskLoop(field_val, i) ==
    IF i > Len(ParameterOrder) THEN field_val
    ELSE LET field == ParameterOrder[i]
         IN MaskLoop(IF field \in DOMAIN field_val
                        /\ StartsWithMarker(force_text(field, field_val[field]))
                     THEN DictSet(field_val, field, <<MARK>>)
                     ELSE field_val,
                     i + 1)

display_notification_configuration(o) == MaskLoop(o.config, 1)

(***************************************************************************)
(* Template texts and their rendering by the sandboxed environment         *)
(* (env.from_string(t).render of the context). A template text is a       *)
(* sequence                                                                *)
(* of tokens: literal text, {{ a.b.c }}, a malformed tag, an access the    *)
(* sandbox refuses, or an expression that divides by zero.                 *)
(***************************************************************************)
Lit(s) == [t |-> "lit", s |-> s, path |-> << >>]

Var(path) == [t |-> "var", s |-> "", path |-> path]

Malformed == [t |-> "malformed", s |-> "{{ job.id }", path |-> << >>]

Unsafe(path) == [t |-> "unsafe", s |-> "", path |-> path]

DivByZero == [t |-> "div0", s |-> "{{ 1 / 0 }}", path |-> << >>]

\* A node of a serialized record or of a context: a leaf with its text, or a
\* mapping of names to nodes.
Leaf(v) == [leaf |-> TRUE, val |-> v, kids |-> EmptyDict]

Mapping(kids) == [leaf |-> FALSE, val |-> "", kids |-> kids]

\* The lookup of a.b.c in the context: "undefined" for a missing name,
\* "UndefinedError" for an attribute of an undefined value.
RECURSIVE Lookup(_, _, _)
Lookup(node, path, i) ==
    IF i > Len(path) THEN [kind |-> "value", node |-> node]
    ELSE IF ~node.leaf /\ path[i] \in DOMAIN node.kids
    THEN Lookup(node.kids[path[i]], path, i + 1)
    ELSE IF i = Len(path) THEN [kind |-> "undefined", node |-> node]
    ELSE [kind |-> "UndefinedError", node |-> node]

\* str() of a looked-up value.
ValueText(node) == IF node.leaf THEN node.val ELSE "{...}"

\* [exc, out]: from_string raises TemplateSyntaxError for a malformed text
\* before anything is rendered; render raises at the first token that fails.
RECURSIVE RenderTokens(_, _, _, _)
RenderTokens(text, context, i, out) ==
    IF i > Len(text) THEN [exc |-> "none", out |-> out]
    ELSE LET tok == text[i]
         IN CASE tok.t = "lit" -> RenderTokens(text, context, i + 1, out \o tok.s)
              [] tok.t = "var" ->
                   LET r == Lookup(context, tok.path, 1)
                   IN IF r.kind = "UndefinedError" THEN [exc |-> "UndefinedError", out |-> ""]
                      ELSE RenderTokens(text, context, i + 1,
                                        IF r.kind = "undefined" THEN out
                                        ELSE out \o ValueText(r.node))
              [] tok.t = "unsafe" -> [exc |-> "SecurityError", out |-> ""]
              [] tok.t = "div0" -> [exc |-> "ZeroDivisionError", out |-> ""]
              [] OTHER -> [exc |-> "TemplateSyntaxError", out |-> ""]

Render(template, context) ==
    IF \E i \in 1..Len(template.str) : template.str[i].t = "malformed"
    THEN [exc |-> "TemplateSyntaxError", out |-> ""]
    ELSE RenderTokens(template.str, context, 1, "")

\* except (TemplateSyntaxError, UndefinedError, SecurityError)
CaughtRenderErrors == {"TemplateSyntaxError", "UndefinedError", "SecurityError"}

(***************************************************************************)
(* JobNotificationMixin                                                    *)
(***************************************************************************)
\* A table with two kinds exchanged.
STATUS_TO_TEMPLATE_TYPE_Swapped == [succeeded |-> "error", running |-> "started", failed |-> "success"]

STATUS_TO_TEMPLATE_TYPE == [succeeded |-> "success", running |-> "started", failed |-> "error"]

ValidStatuses == {"running", "succeeded", "failed"}

\* A whitelist entry: a leaf name, or a name with the whitelist of its subtree.
WLeaf(name) == [name |-> name, leaf |-> TRUE, sub |-> << >>]

WTree(name, sub) == [name |-> name, leaf |-> FALSE, sub |-> sub]

\* The entries of JOB_FIELDS_WHITELIST the modelled records have fields for.
JOB_FIELDS_WHITELIST ==
    <<WLeaf("id"), WLeaf("name"), WLeaf("status"),
      WTree("summary_fields",
            <<WTree("inventory", <<WLeaf("id"), WLeaf("name")>>),
              WTree("labels", <<WLeaf("count"), WLeaf("results")>>)>>)>>

\* A projection that puts a null in the place of a field the record lacks.
RECURSIVE build_context_Placeholder(_, _, _, _)
build_context_Placeholder(node, fields, whitelisted_fields, i) ==
    IF i > Len(whitelisted_fields) THEN node
    ELSE LET safe_field == whitelisted_fields[i]
             field == safe_field.name
         IN IF field \notin DOMAIN fields
            THEN build_context_Placeholder(
                     DictSet(node, field, [leaf |-> TRUE, val |-> "null", kids |-> << >>]),
                     fields, whitelisted_fields, i + 1)
            ELSE IF safe_field.leaf
            THEN build_context_Placeholder(DictSet(node, field, fields[field]),
                                           fields, whitelisted_fields, i + 1)
            ELSE build_context_Placeholder(
                     DictSet(node, field,
                             [leaf |-> FALSE, val |-> "",
                              kids |-> build_context_Placeholder(<< >>, fields[field].kids,
                                                                 safe_field.sub, 1)]),
                     fields, whitelisted_fields, i + 1)

\* build_context (lines 401-415): the kids of the projected node.
RECURSIVE build_context(_, _, _, _)
build_context(node, fields, whitelisted_fields, i) ==
    IF i > Len(whitelisted_fields) THEN node
    ELSE LET safe_field == whitelisted_fields[i]
             field == safe_field.name
         IN IF field \notin DOMAIN fields
            THEN build_context(node, fields, whitelisted_fields, i + 1)
            ELSE IF safe_field.leaf
            THEN build_context(DictSet(node, field, fields[field]),
                               fields, whitelisted_fields, i + 1)
            ELSE build_context(DictSet(node, field,
                                       Mapping(build_context(EmptyDict, fields[field].kids,
                                                             safe_field.sub, 1))),
                               fields, whitelisted_fields, i + 1)

\* The event source's own methods: a job is [id, name, status, impl], impl
\* telling whether its class defines them ("ok"), leaves the mixin's
\* "Define me" stubs ("RuntimeError") or lacks an attribute they use
\* ("AttributeError").
get_notification_friendly_name(job) == "Job"

get_ui_url(job) == "https://towerhost/#/jobs/" \o ToString(job.id)

notification_data(job) ==
    [id |-> job.id, name |-> job.name, status |-> job.status, url |-> get_ui_url(job)]

\* UnifiedJobSerializer(self).to_representation(self): whitelisted fields and
\* others the whitelist does not name.
Serialize(job) ==
    [id |-> Leaf(ToString(job.id)),
     name |-> Leaf(job.name),
     status |-> Leaf(job.status),
     extra_vars |-> Leaf("secret"),
     summary_fields |->
        Mapping([inventory |-> Mapping([id |-> Leaf("17"), name |-> Leaf("inv"),
                                        variables |-> Leaf("secret")]),
                 credentials |-> Mapping([id |-> Leaf("5")])])]

\* context(serialized_job) (lines 391-418)
context(job, serialized_job) ==
    Mapping([job |-> Mapping(build_context(EmptyDict, serialized_job, JOB_FIELDS_WHITELIST, 1)),
             job_friendly_name |-> Leaf(get_notification_friendly_name(job)),
             url |-> Leaf(get_ui_url(job)),
             job_summary_dict |-> Leaf("{...}")])

\* u"{} #{} '{}' {}: {}".format(...) (lines 449-453)
DefaultSubject(job, status) ==
    get_notification_friendly_name(job) \o " #" \o ToString(job.id) \o " '" \o job.name
        \o "' " \o status \o ": " \o get_ui_url(job)

\* NotificationTemplate.build_notification_message(event_type, context)
\* (lines 95-112), with get_message (92-93): [exc, subject, body]. The entry
\* of the event kind is read with .get, so None in its place has no .get;
\* a missing template is {} and from_string compiles only text.
NotificationTemplate_build_notification_message(nt, event_type, ctx) ==
    LET failed(e) == [exc |-> e, subject |-> "", body |-> ""]
        templates == DictGet(nt.messages, event_type, EmptyDict)
        msg_template == DictGet(templates, "message", EmptyDict)
        msg_body == DictGet(templates, "body", EmptyDict)
        rs == Render(msg_template, ctx)
        rb == Render(msg_body, ctx)
    IN IF IsNone(nt.messages) \/ IsNone(templates) THEN failed("AttributeError")
       ELSE IF ~IsStr(msg_template) THEN failed("TypeError")
       ELSE IF rs.exc \notin CaughtRenderErrors \cup {"none"} THEN failed(rs.exc)
       ELSE IF ~IsStr(msg_body) THEN failed("TypeError")
       ELSE IF rb.exc \notin CaughtRenderErrors \cup {"none"} THEN failed(rb.exc)
       ELSE [exc |-> "none",
             subject |-> IF rs.exc = "none" THEN rs.out ELSE "",
             body |-> IF rb.exc = "none" THEN rb.out ELSE ""]

\* A build whose except clauses catch nothing.
build_notification_message_NoCatch(job, nt, status) ==
    IF job.impl # "ok"
    THEN [exc |-> job.impl, subject |-> "", body |-> EmptyDict]
    ELSE
    LET ctx == context(job, Serialize(job))
        custom == Truthy(nt.messages)
        found == IF custom
                 THEN DictGet(nt.messages, STATUS_TO_TEMPLATE_TYPE[status], EmptyDict)
                 ELSE EmptyDict
        templates == IF Truthy(found) THEN found ELSE EmptyDict
        msg_template == IF custom THEN DictGet(templates, "message", EmptyDict) ELSE NoneVal
        body_template == IF custom THEN DictGet(templates, "body", EmptyDict) ELSE NoneVal
        rs == Render(msg_template, ctx)
        rb == Render(body_template, ctx)
        data == DictSet(notification_data(job), "friendly_name",
                        get_notification_friendly_name(job))
    IN IF Truthy(msg_template) /\ rs.exc # "none"
       THEN [exc |-> rs.exc, subject |-> "", body |-> EmptyDict]
       ELSE IF Truthy(body_template) /\ rb.exc # "none"
       THEN [exc |-> rb.exc, subject |-> "", body |-> EmptyDict]
       ELSE [exc |-> "none",
             subject |-> IF Truthy(msg_template) THEN rs.out ELSE DefaultSubject(job, status),
             body |-> IF Truthy(body_template) THEN DictSet(data, "body", rb.out) ELSE data]

\* A build that has no default subject: without a subject template the
\* subject is ''.
build_notification_message_NoDefault(job, nt, status) ==
    IF job.impl # "ok"
    THEN [exc |-> job.impl, subject |-> "", body |-> EmptyDict]
    ELSE
    LET ctx == context(job, Serialize(job))
        custom == Truthy(nt.messages)
        found == IF custom
                 THEN DictGet(nt.messages, STATUS_TO_TEMPLATE_TYPE[status], EmptyDict)
                 ELSE EmptyDict
        templates == IF Truthy(found) THEN found ELSE EmptyDict
        msg_template == IF custom THEN DictGet(templates, "message", EmptyDict) ELSE NoneVal
        body_template == IF custom THEN DictGet(templates, "body", EmptyDict) ELSE NoneVal
        rs == Render(msg_template, ctx)
        rb == Render(body_template, ctx)
        data == DictSet(notification_data(job), "friendly_name",
                        get_notification_friendly_name(job))
    IN IF Truthy(msg_template) /\ rs.exc \notin CaughtRenderErrors \cup {"none"}
       THEN [exc |-> rs.exc, subject |-> "", body |-> EmptyDict]
       ELSE IF Truthy(body_template) /\ rb.exc \notin CaughtRenderErrors \cup {"none"}
       THEN [exc |-> rb.exc, subject |-> "", body |-> EmptyDict]
       ELSE [exc |-> "none",
             subject |-> IF Truthy(msg_template)
                         THEN (IF rs.exc = "none" THEN rs.out ELSE "")
                         ELSE "",
             body |-> IF Truthy(body_template)
                      THEN DictSet(data, "body", IF rb.exc = "none" THEN rb.out ELSE "")
                      ELSE data]

\* JobNotificationMixin.build_notification_message(nt, status) (lines 429-462):
\* [exc, subject, body].
build_notification_message(job, nt, status) ==
    IF job.impl # "ok"
    THEN [exc |-> job.impl, subject |-> "", body |-> EmptyDict]
    ELSE
    LET ctx == context(job, Serialize(job))
        custom == Truthy(nt.messages)
        found == IF custom
                 THEN DictGet(nt.messages, STATUS_TO_TEMPLATE_TYPE[status], EmptyDict)
                 ELSE EmptyDict
        templates == IF Truthy(found) THEN found ELSE EmptyDict
        msg_template == IF custom THEN DictGet(templates, "message", EmptyDict) ELSE NoneVal
        body_template == IF custom THEN DictGet(templates, "body", EmptyDict) ELSE NoneVal
        rs == Render(msg_template, ctx)
        rb == Render(body_template, ctx)
        data == DictSet(notification_data(job), "friendly_name",
                        get_notification_friendly_name(job))
    IN IF Truthy(msg_template) /\ rs.exc \notin CaughtRenderErrors \cup {"none"}
       THEN [exc |-> rs.exc, subject |-> "", body |-> EmptyDict]
       ELSE IF Truthy(body_template) /\ rb.exc \notin CaughtRenderErrors \cup {"none"}
       THEN [exc |-> rb.exc, subject |-> "", body |-> EmptyDict]
       ELSE [exc |-> "none",
             subject |-> IF Truthy(msg_template)
                         THEN (IF rs.exc = "none" THEN rs.out ELSE "")
                         ELSE DefaultSubject(job, status),
             body |-> IF Truthy(body_template)
                      THEN DictSet(data, "body", IF rb.exc = "none" THEN rb.out ELSE "")
                      ELSE data]

(***************************************************************************)
(* The templates an event source resolves, as rows loaded from the         *)
(* database: [pk, notification_type, recipients, messages].                *)
(***************************************************************************)
Templates ==
    <<[pk |-> 1, notification_type |-> "slack", recipients |-> "['#ops']",
       messages |-> [started |-> [message |-> Str(<<Lit("Job "), Var(<<"job", "id">>), Lit(" started")>>)],
                     success |-> NoneVal,
                     error |-> [message |-> Str(<<Lit("Job "), Var(<<"job", "id">>), Lit(" failed")>>),
                                body |-> Str(<<Lit("Status "), Var(<<"job", "status">>)>>)]]],
      [pk |-> 2, notification_type |-> "webhook", recipients |-> "https://hook",
       messages |-> default_messages],
      [pk |-> 3, notification_type |-> "email", recipients |-> "['a@b.c']",
       messages |-> [started |-> [message |-> Str(<<Malformed>>),
                                  body |-> Str(<<Lit("inv "), Var(<<"job", "summary_fields", "inventory", "name">>)>>)],
                     success |-> [message |-> Str(<<Lit("x"), Var(<<"job", "extra_vars">>),
                                                    Var(<<"job", "nothing", "here">>)>>),
                                  body |-> Str(<<Lit("class "), Unsafe(<<"job", "__class__">>)>>)],
                     error |-> [message |-> Str(<<Lit("ratio "), DivByZero>>)]]],
      [pk |-> 4, notification_type |-> "email", recipients |-> "['d@e.f']",
       messages |-> [started |-> [body |-> Str(<<Lit("run "), Var(<<"job", "name">>)>>)],
                     success |-> [message |-> Str(<<Var(<<"job", "nothing">>)>>)],
                     error |-> [message |-> Str(<< >>),
                                body |-> Str(<<Lit("failed")>>)]]],
      [pk |-> 5, notification_type |-> "slack", recipients |-> "['#dev']",
       messages |-> NoneVal]>>

TemplateIds == DOMAIN Templates

\* NotificationTemplate.generate_notification (lines 172-179): the row that
\* notification.save() inserts, with the defaults of the Notification model.
generate_notification(nt, subject, message, table) ==
    [id |-> Len(table) + 1,
     notification_template |-> nt.pk,
     notification_type |-> nt.notification_type,
     recipients |-> nt.recipients,
     subject |-> subject,
     body |-> message,
     status |-> "pending",
     error |-> "",
     notifications_sent |-> 0]

\* _func (lines 486-488): generate the Notification, then
\* send_notifications.delay([id], job_id=self.id).
RunCallback(cb, st) ==
    LET n == generate_notification(Templates[cb.local_nt], cb.local_subject, cb.local_body,
                                   st.notifications)
    IN [st EXCEPT !.notifications = Append(@, n),
                  !.tasks = Append(@, [ids |-> <<n.id>>, job_id |-> cb.job_id])]

\* A registration that calls the function at once.
RegisterOnCommit_RunsAtOnce(cb, st, in_atomic_block) == RunCallback(cb, st)

\* connection.on_commit(func): inside an atomic block the callback waits for
\* the commit, outside it runs at once.
RegisterOnCommit(cb, st, in_atomic_block) ==
    IF in_atomic_block THEN [st EXCEPT !.on_commit = Append(@, cb)]
    ELSE RunCallback(cb, st)

\* The exception that leaves the loop for a failed build (lines 478-481): the
\* handler of AttributeError formats a string without a conversion with
\* "% status", which raises TypeError.
BuildFailure(exc) == IF exc = "AttributeError" THEN "TypeError" ELSE exc

\* A loop that goes on to the next template when a build fails.
RECURSIVE DispatchLoop_Swallows(_, _, _, _, _, _)
DispatchLoop_Swallows(job, status, order, i, st, in_atomic_block) ==
    IF i > Len(order) THEN st
    ELSE LET m == build_notification_message(job, Templates[order[i]], status)
         IN IF m.exc # "none"
            THEN DispatchLoop_Swallows(job, status, order, i + 1,
                                       [st EXCEPT !.built = Append(@, order[i])],
                                       in_atomic_block)
            ELSE DispatchLoop_Swallows(job, status, order, i + 1,
                                       RegisterOnCommit([local_nt |-> order[i],
                                                         local_subject |-> m.subject,
                                                         local_body |-> m.body,
                                                         job_id |-> job.id],
                                                        [st EXCEPT !.built = Append(@, order[i])],
                                                        in_atomic_block),
                                       in_atomic_block)

\* A loop whose callbacks read nt, the subject and the body when they run:
\* one queued for the commit finds the values of the last template.
RECURSIVE DispatchLoop_LateBinding(_, _, _, _, _, _)
DispatchLoop_LateBinding(job, status, order, i, st, in_atomic_block) ==
    IF i > Len(order) THEN st
    ELSE LET m == build_notification_message(job, Templates[order[i]], status)
             j == IF in_atomic_block THEN Len(order) ELSE i
             seen == build_notification_message(job, Templates[order[j]], status)
         IN IF m.exc # "none"
            THEN [st EXCEPT !.exc = BuildFailure(m.exc), !.built = Append(@, order[i])]
            ELSE DispatchLoop_LateBinding(job, status, order, i + 1,
                              RegisterOnCommit([local_nt |-> order[j],
                                                local_subject |-> seen.subject,
                                                local_body |-> seen.body,
                                                job_id |-> job.id],
                                               [st EXCEPT !.built = Append(@, order[i])],
                                               in_atomic_block),
                              in_atomic_block)

\* The loop of lines 477-490 over the distinct templates, in the order the
\* set yields them.
RECURSIVE DispatchLoop(_, _, _, _, _, _)
DispatchLoop(job, status, order, i, st, in_atomic_block) ==
    IF i > Len(order) THEN st
    ELSE LET m == build_notification_message(job, Templates[order[i]], status)
         IN IF m.exc # "none"
            THEN [st EXCEPT !.exc = BuildFailure(m.exc), !.built = Append(@, order[i])]
            ELSE DispatchLoop(job, status, order, i + 1,
                              RegisterOnCommit([local_nt |-> order[i],
                                                local_subject |-> m.subject,
                                                local_body |-> m.body,
                                                job_id |-> job.id],
                                               [st EXCEPT !.built = Append(@, order[i])],
                                               in_atomic_block),
                              in_atomic_block)

\* The elements of a list as a set: set(list).
Range(list) == {list[i] : i \in DOMAIN list}

\* The orders in which a set can be iterated.
Orders(S) == {o \in [1..Cardinality(S) -> S] : Range(o) = S}

\* An iteration of the list itself, repeats included.
IterationOrders_NoSet(list) == {list}

\* set(list) of line 477, as the orders the for loop may take its elements in.
IterationOrders(list) == Orders(Range(list))

\* What get_notification_templates gives: [raises, value], value being None
\* or a dict from event kinds to lists of templates.
\* The list send_notification_templates iterates (line 477).
ResolvedList(resolution, status) ==
    DictGet(resolution.value, STATUS_TO_TEMPLATE_TYPE[status], << >>)

\* A dispatch that checks the status only after resolving the templates.
send_notification_templates_ValidatesLate(job, status, resolution, order, st, in_atomic_block) ==
    LET st1 == [st EXCEPT !.get_called = TRUE]
    IN IF status \notin ValidStatuses THEN [st1 EXCEPT !.exc = "ValueError"]
       ELSE IF resolution.raises THEN st1
       ELSE IF ~Truthy(resolution.value) THEN st1
       ELSE DispatchLoop(job, status, order, 1, st1, in_atomic_block)

\* A dispatch without the try around get_notification_templates.
send_notification_templates_NoTry(job, status, resolution, order, st, in_atomic_block) ==
    IF status \notin ValidStatuses THEN [st EXCEPT !.exc = "ValueError"]
    ELSE LET st1 == [st EXCEPT !.get_called = TRUE]
         IN IF resolution.raises THEN [st1 EXCEPT !.exc = "RuntimeError"]
            ELSE IF ~Truthy(resolution.value) THEN st1
            ELSE DispatchLoop(job, status, order, 1, st1, in_atomic_block)

\* send_notification_templates(status) (lines 464-490), from the state
\* st = [exc, get_called, built, on_commit, notifications, tasks] of the call's
\* effects so far; order is the iteration order of the set of line 477.
send_notification_templates(job, status, resolution, order, st, in_atomic_block) ==
    IF status \notin ValidStatuses THEN [st EXCEPT !.exc = "ValueError"]
    ELSE LET st1 == [st EXCEPT !.get_called = TRUE]
         IN IF resolution.raises THEN st1
            ELSE IF ~Truthy(resolution.value) THEN st1
            ELSE DispatchLoop(job, status, order, 1, st1, in_atomic_block)

(***************************************************************************)
(* State                                                                   *)
(***************************************************************************)
VARIABLES
    nt,             \* the in-memory NotificationTemplate object
    row,            \* its row in the database
    writes,         \* the versions of the row the last operation wrote
    exc,            \* the exception the last operation raised, or "none"
    op,             \* the last operation on the object
    lastSave,       \* the object, the row and update_fields a save() just done began with
    displayed,      \* what display_notification_configuration just returned
    sent,           \* the backend call of a send() just done, and its result
    phase,          \* of the dispatch: idle, called, committed, rolledback
    in_atomic,      \* whether the dispatch runs inside an atomic block
    on_commit,      \* the connection's queue of on-commit callbacks
    notifications,  \* the Notification table
    tasks,          \* the send_notifications tasks handed to the queue
    call,           \* the arguments and the outcome of the dispatch call
    record,         \* a serialized job record handed to context()
    projected       \* the context it returned, or None before the call

templateVars == <<nt, row, writes, exc, op, lastSave, displayed, sent>>

dispatchVars == <<phase, in_atomic, on_commit, notifications, tasks, call>>

contextVars == <<record, projected>>

vars == <<nt, row, writes, exc, op, lastSave, displayed, sent,
          phase, in_atomic, on_commit, notifications, tasks, call,
          record, projected>>

(***************************************************************************)
(* Inputs                                                                  *)
(***************************************************************************)
Plain1 == <<"p1">>

Plain2 == <<"p2">>

\* The mask, as a client echoes it back from a displayed configuration.
Mask == <<MARK>>

\* A ciphertext of the row, as a client echoes it back.
Cipher1 == <<MARK, EncryptionKey(NewPk, "token"), "p1">>

TokenInputs == {EmptyStr, Plain1, Plain2, Mask, Cipher1}

\* A configuration with every parameter, and one with only the required ones
\* and a single recipient.
FullConfig(token) ==
    [token |-> token, channels |-> [list |-> TRUE, val |-> <<"#ops", "#dev">>],
     sender |-> <<"awx">>, color |-> <<"red">>]

MinimalConfig(token) ==
    [token |-> token, channels |-> [list |-> FALSE, val |-> <<"#ops">>]]

ConfigInputs ==
    {MinimalConfig(t) : t \in TokenInputs}
        \cup {FullConfig(Plain1), DictDel(MinimalConfig(EmptyStr), "token")}

M1 == Str(<<Lit("m1")>>)

M2 == Str(<<Lit("m2")>>)

B1 == Str(<<Lit("b1")>>)

B2 == Str(<<Lit("b2")>>)

\* The entries a messages dict is given per event kind: every shape under
\* 'success', fewer under the two others.
EntryInputs(kind) ==
    CASE kind = "success" ->
           {NoneVal, EmptyDict, [message |-> M1], [body |-> B1], [message |-> M2, body |-> B2],
            [message |-> M1, body |-> NoneVal]}
      [] kind = "started" -> {[message |-> M1], [message |-> M2, body |-> B2]}
      [] OTHER -> {NoneVal}

KindSet == Range(EventKinds)

\* None, or a dict with any of the event kinds as keys.
MessagesInputs ==
    {NoneVal} \cup UNION {{m \in [D -> UNION {EntryInputs(k) : k \in D}] :
                              \A k \in D : m[k] \in EntryInputs(k)} : D \in SUBSET KindSet}

UpdateFieldsInputs ==
    {NoUpdateFields, UpdateFields({"name"}), UpdateFields({"messages"}),
     UpdateFields({"notification_configuration"})}

\* What send_messages answers: a count of deliveries, or a delivery error.
BackendAnswers == {"1", "0", "error"}

NoSave == [kind |-> "none", nt |-> NoneVal, row |-> NoRow, uf |-> NoUpdateFields]

NewObject(config, messages) ==
    [pk |-> 0, config |-> config, messages |-> messages, saved |-> EmptyDict]

(***************************************************************************)
(* Operations on a template object                                         *)
(***************************************************************************)
NothingSent == [call |-> NoCall, result |-> NoneVal]

\* writes, lastSave, displayed and sent describe the last operation only.
ForgetHistory ==
    /\ writes' = << >>
    /\ lastSave' = NoSave
    /\ displayed' = NoneVal
    /\ sent' = NothingSent

\* The object as constructed, before any save.
TemplateInit(C, M) ==
    /\ nt \in {NewObject(c, m) : c \in C, m \in M}
    /\ row = NoRow
    /\ writes = << >>
    /\ exc = "none"
    /\ op = "construct"
    /\ lastSave = NoSave
    /\ displayed = NoneVal
    /\ sent = NothingSent

\* nt.notification_configuration = c
AssignConfig ==
    \E c \in ConfigInputs :
        /\ nt' = [nt EXCEPT !.config = c]
        /\ op' = "assign"
        /\ exc' = "none"
        /\ ForgetHistory
        /\ UNCHANGED row
        /\ UNCHANGED dispatchVars
        /\ UNCHANGED contextVars

\* nt.messages = m
AssignMessages ==
    \E m \in MessagesInputs :
        /\ nt' = [nt EXCEPT !.messages = m]
        /\ op' = "assign"
        /\ exc' = "none"
        /\ ForgetHistory
        /\ UNCHANGED row
        /\ UNCHANGED dispatchVars
        /\ UNCHANGED contextVars

\* nt.save(), or nt.save(update_fields=[...]) of an object that has a row
Save ==
    \E uf \in UpdateFieldsInputs :
        /\ uf.given => nt.pk # 0
        /\ LET r == save(nt, row, uf)
           IN /\ nt' = r.o
              /\ row' = r.row
              /\ writes' = r.writes
              /\ exc' = r.exc
        /\ op' = "save"
        /\ lastSave' = [kind |-> IF nt.pk = 0 THEN "create" ELSE "update",
                        nt |-> nt, row |-> row, uf |-> uf]
        /\ displayed' = NoneVal
        /\ sent' = NothingSent
        /\ UNCHANGED dispatchVars
        /\ UNCHANGED contextVars

\* NotificationTemplate.objects.get(pk=...): a fresh object of the row
Reload ==
    /\ row.exists
    /\ nt' = [pk |-> NewPk, config |-> row.config, messages |-> row.messages,
              saved |-> EmptyDict]
    /\ op' = "load"
    /\ exc' = "none"
    /\ ForgetHistory
    /\ UNCHANGED row
    /\ UNCHANGED dispatchVars
    /\ UNCHANGED contextVars

SendSubject == <<"subject">>

SendBody == <<"body">>

\* nt.send(subject, body) on an object that has a row
Send ==
    \E answer \in BackendAnswers :
        /\ nt.pk # 0
        /\ LET r == send(nt, SendSubject, SendBody, answer)
           IN /\ nt' = r.o
              /\ exc' = r.exc
              /\ sent' = [call |-> r.call, result |-> r.result]
        /\ op' = "send"
        /\ writes' = << >>
        /\ lastSave' = NoSave
        /\ displayed' = NoneVal
        /\ UNCHANGED row
        /\ UNCHANGED dispatchVars
        /\ UNCHANGED contextVars

\* nt.display_notification_configuration()
Display ==
    /\ displayed' = display_notification_configuration(nt)
    /\ op' = "display"
    /\ exc' = "none"
    /\ writes' = << >>
    /\ lastSave' = NoSave
    /\ sent' = NothingSent
    /\ UNCHANGED <<nt, row>>
    /\ UNCHANGED dispatchVars
    /\ UNCHANGED contextVars

(***************************************************************************)
(* The dispatch of one status transition of an event source                *)
(***************************************************************************)
MaxListLen == 2

MaxPrior == 1

JobIds == {42}

StatusInputs == ValidStatuses \cup {"cancelled"}

ImplInputs == {"ok", "RuntimeError", "AttributeError"}

\* The lists of templates of at most MaxListLen entries, repeats included,
\* in ascending order: the loop iterates set(list), which keeps nothing of
\* the order of the list.
ListInputs ==
    {l \in UNION {[1..n -> TemplateIds] : n \in 0..MaxListLen} :
        \A i \in 1..(Len(l) - 1) : l[i] <= l[i + 1]}

\* The dicts get_notification_templates returns: a list under one kind and
\* nothing, or one template, under the two others.
MappingInputs ==
    {EmptyDict}
    \cup {[k \in {kind} |-> l] : kind \in KindSet, l \in ListInputs}
    \cup {[k \in KindSet |-> IF k = kind THEN l ELSE <<2>>] :
            kind \in KindSet, l \in ListInputs}

ResolutionInputs ==
    {[raises |-> TRUE, value |-> NoneVal], [raises |-> FALSE, value |-> NoneVal]}
    \cup {[raises |-> FALSE, value |-> m] : m \in MappingInputs}

\* A Notification of an earlier dispatch.
OldNotification(i) ==
    [id |-> i, notification_template |-> 2, notification_type |-> "webhook",
     recipients |-> "https://hook", subject |-> "old", body |-> EmptyDict,
     status |-> "successful", error |-> "", notifications_sent |-> 1]

NoCallYet ==
    [status |-> "", job |-> NoneVal, resolution |-> NoneVal, order |-> << >>,
     exc |-> "none", get_called |-> FALSE, built |-> << >>]

DispatchIdle ==
    /\ phase = "idle"
    /\ in_atomic \in BOOLEAN
    /\ on_commit = << >>
    /\ notifications \in {[i \in 1..n |-> OldNotification(i)] : n \in 0..MaxPrior}
    /\ tasks = << >>
    /\ call = NoCallYet

\* job.send_notification_templates(status)
SendNotificationTemplates ==
    \E status \in StatusInputs, id \in JobIds, impl \in ImplInputs,
       resolution \in ResolutionInputs :
        LET job == [id |-> id, name |-> "demo", status |-> status, impl |-> impl]
            iterated == status \in ValidStatuses /\ ~resolution.raises
                        /\ Truthy(resolution.value)
            orders == IF iterated THEN IterationOrders(ResolvedList(resolution, status))
                      ELSE {<< >>}
        IN \E order \in orders :
            LET st == send_notification_templates(
                          job, status, resolution, order,
                          [exc |-> "none", get_called |-> FALSE, built |-> << >>,
                           on_commit |-> on_commit, notifications |-> notifications,
                           tasks |-> tasks],
                          in_atomic)
            IN /\ phase = "idle"
               /\ phase' = "called"
               /\ on_commit' = st.on_commit
               /\ notifications' = st.notifications
               /\ tasks' = st.tasks
               /\ call' = [status |-> status, job |-> job, resolution |-> resolution,
                           order |-> order, exc |-> st.exc, get_called |-> st.get_called,
                           built |-> st.built]
               /\ UNCHANGED in_atomic
               /\ UNCHANGED templateVars
               /\ UNCHANGED contextVars

\* The callbacks of the queue from position i on, run in order.
RECURSIVE RunCallbacks(_, _, _)
RunCallbacks(queue, i, st) ==
    IF i > Len(queue) THEN st
    ELSE RunCallbacks(queue, i + 1, RunCallback(queue[i], st))

\* The atomic block ends with a commit: the queued callbacks run.
Commit ==
    /\ phase = "called"
    /\ in_atomic
    /\ LET st == RunCallbacks(on_commit, 1,
                              [notifications |-> notifications, tasks |-> tasks])
       IN /\ notifications' = st.notifications
          /\ tasks' = st.tasks
    /\ on_commit' = << >>
    /\ phase' = "committed"
    /\ UNCHANGED <<in_atomic, call>>
    /\ UNCHANGED templateVars
    /\ UNCHANGED contextVars

\* The atomic block ends with a rollback: the queued callbacks are dropped.
Rollback ==
    /\ phase = "called"
    /\ in_atomic
    /\ on_commit' = << >>
    /\ phase' = "rolledback"
    /\ UNCHANGED <<in_atomic, notifications, tasks, call>>
    /\ UNCHANGED templateVars
    /\ UNCHANGED contextVars

(***************************************************************************)
(* The projection of a serialized job record                               *)
(***************************************************************************)
\* A field the record does not have.
Absent == [leaf |-> TRUE, val |-> "<absent>", kids |-> EmptyDict]

\* fields with the field k, unless it is absent.
WithField(fields, k, v) == IF v = Absent THEN fields ELSE DictSet(fields, k, v)

\* summary_fields.inventory: whitelisted names, and one the whitelist lacks.
InventoryInputs ==
    {Absent,
     Mapping([id |-> Leaf("17"), name |-> Leaf("inv")]),
     Mapping([id |-> Leaf("17"), name |-> Leaf("inv"), variables |-> Leaf("secret")])}

\* summary_fields.labels: 'results' is a whitelisted leaf whose value is a
\* text, or holds the labels with fields of their own.
LabelsInputs ==
    {Absent,
     Mapping([count |-> Leaf("0"), results |-> Leaf("[]")]),
     Mapping([count |-> Leaf("1"),
              results |-> Mapping([id |-> Leaf("3"), name |-> Leaf("prod")])]),
     Mapping([count |-> Leaf("1"),
              results |-> Mapping([id |-> Leaf("3"), api_token |-> Leaf("secret")])])}

\* summary_fields.credentials: not in the whitelist.
CredentialsInputs == {Absent, Mapping([id |-> Leaf("5"), kind |-> Leaf("ssh")])}

SummaryFieldsInputs ==
    {Absent}
    \cup {Mapping(WithField(WithField(WithField(EmptyDict, "inventory", i), "labels", l),
                            "credentials", c)) :
            i \in InventoryInputs, l \in LabelsInputs, c \in CredentialsInputs}

\* The serialized job records context() is given.
RecordInputs ==
    {WithField(WithField(WithField([id |-> Leaf("42")], "name", n), "extra_vars", e),
               "summary_fields", sf) :
        n \in {Absent, Leaf("demo")}, e \in {Absent, Leaf("secret")},
        sf \in SummaryFieldsInputs}

\* The job whose context is built.
ContextJob == [id |-> 42, name |-> "demo", status |-> "successful", impl |-> "ok"]

NoRecord == EmptyDict

ContextIdle ==
    /\ record = NoRecord
    /\ projected = NoneVal

\* job.context(record)
Project ==
    /\ IsNone(projected)
    /\ projected' = context(ContextJob, record)
    /\ UNCHANGED record
    /\ UNCHANGED templateVars
    /\ UNCHANGED dispatchVars

(***************************************************************************)
(* Specifications                                                          *)
(***************************************************************************)
\* The life of a template object: its configuration through saves, sends and
\* displays.
Init ==
    /\ TemplateInit(ConfigInputs, {default_messages})
    /\ DispatchIdle /\ in_atomic /\ notifications = << >>
    /\ ContextIdle

Next ==
    \/ AssignConfig
    \/ Save
    \/ Reload
    \/ Send
    \/ Display

Spec == Init /\ [][Next]_vars

\* The messages of a template object through saves.
MsgInit ==
    /\ TemplateInit({MinimalConfig(Plain1)}, MessagesInputs)
    /\ DispatchIdle /\ in_atomic /\ notifications = << >>
    /\ ContextIdle

MsgNext ==
    \/ AssignMessages
    \/ Save
    \/ Reload

MsgSpec == MsgInit /\ [][MsgNext]_vars

\* One dispatch of an event source, inside or outside an atomic block.
DispatchInit ==
    /\ TemplateInit({MinimalConfig(Plain1)}, {default_messages})
    /\ DispatchIdle
    /\ ContextIdle

DispatchNext ==
    \/ SendNotificationTemplates
    \/ Commit
    \/ Rollback

DispatchSpec == DispatchInit /\ [][DispatchNext]_vars

\* context() applied to a serialized job record.
ContextInit ==
    /\ TemplateInit({MinimalConfig(Plain1)}, {default_messages})
    /\ DispatchIdle /\ in_atomic /\ notifications = << >>
    /\ record \in RecordInputs
    /\ projected = NoneVal

ContextNext == Project

ContextSpec == ContextInit /\ [][ContextNext]_vars

(***************************************************************************)
(* Properties of the dispatch (DispatchSpec)                               *)
(***************************************************************************)
\* The rows of the Notification table this dispatch created.
NewNotifications == {i \in DOMAIN notifications : notifications[i].subject # "old"}

NothingProduced ==
    /\ NewNotifications = {}
    /\ on_commit = << >>
    /\ tasks = << >>

\* Whether the call found a dict and iterated the list of the mapped kind.
Iterated ==
    /\ call.status \in ValidStatuses
    /\ ~call.resolution.raises
    /\ Truthy(call.resolution.value)

\* The distinct templates resolved under the kind of the call's status.
Resolved == IF Iterated THEN Range(ResolvedList(call.resolution, call.status)) ELSE {}

\* The callbacks the call registered have run (or there were none to run).
CallbacksRan == phase = "committed" \/ (phase = "called" /\ ~in_atomic)

\* C1: a call with a status other than running, succeeded or failed raises
\* ValueError before any side effect: get_notification_templates is not
\* called, no message is built, no Notification is created, no callback is
\* registered and no send is enqueued (also not once the transaction ends).
C1_InvalidStatusRejected ==
    (phase # "idle" /\ call.status \notin ValidStatuses)
        => /\ call.exc = "ValueError"
           /\ ~call.get_called
           /\ call.built = << >>
           /\ NothingProduced

\* A rejected call that had templates to resolve and a finished event source.
C1_Witness ==
    /\ phase = "called"
    /\ call.status = "cancelled"
    /\ call.exc = "ValueError"
    /\ call.job.impl = "ok"
    /\ ~call.resolution.raises
    /\ Truthy(call.resolution.value)
    /\ \A k \in KindSet : DictGet(call.resolution.value, k, << >>) # << >>

\* C2: inside an atomic block nothing is enqueued and no Notification exists
\* until the commit; a rollback leaves no Notification, no send and no
\* callback; and every id an enqueued send carries is the id of a pending
\* Notification that is already in the table.
C2_EnqueueOnlyAfterCommit ==
    /\ (in_atomic /\ phase \in {"called", "rolledback"})
          => (tasks = << >> /\ NewNotifications = {})
    /\ (in_atomic /\ phase = "rolledback") => on_commit = << >>
    /\ \A k \in DOMAIN tasks : \A j \in DOMAIN tasks[k].ids :
          /\ tasks[k].ids[j] \in NewNotifications
          /\ notifications[tasks[k].ids[j]].status = "pending"

\* A committed dispatch of two templates: both sends are enqueued.
C2_Witness ==
    /\ in_atomic
    /\ phase = "committed"
    /\ call.exc = "none"
    /\ Len(tasks) = 2
    /\ Cardinality(NewNotifications) = 2

\* C3: once the callbacks of a call that returned normally have run, there is
\* exactly one enqueued send per distinct template resolved under the mapped
\* kind, however often the template is listed; each send carries a list of
\* exactly one id, that of the Notification created for that template by this
\* dispatch, no two sends carry the same id, and job_id is the job's id. A
\* call that raised has enqueued at most one send per template.
C3_OneSendPerTemplate ==
    LET SendsOf(t) == {k \in DOMAIN tasks :
                          /\ Len(tasks[k].ids) = 1
                          /\ tasks[k].ids[1] \in NewNotifications
                          /\ notifications[tasks[k].ids[1]].notification_template = t}
    IN /\ (CallbacksRan /\ call.exc = "none")
            => /\ \A t \in Resolved : Cardinality(SendsOf(t)) = 1
               /\ Len(tasks) = Cardinality(Resolved)
               /\ Cardinality(NewNotifications) = Cardinality(Resolved)
       /\ \A t \in TemplateIds : Cardinality(SendsOf(t)) <= 1
       /\ \A k \in DOMAIN tasks :
            /\ Len(tasks[k].ids) = 1
            /\ tasks[k].job_id = call.job.id
            /\ \A k2 \in DOMAIN tasks : tasks[k2].ids = tasks[k].ids => k2 = k

\* A committed dispatch whose list names the same template twice.
C3_Witness ==
    /\ phase = "committed"
    /\ call.exc = "none"
    /\ Iterated
    /\ ResolvedList(call.resolution, call.status) = <<1, 1>>
    /\ Len(tasks) = 1
    /\ Len(notifications) = 2
    /\ tasks[1] = [ids |-> <<2>>, job_id |-> 42]

(***************************************************************************)
(* Properties of the template's configuration (Spec)                       *)
(***************************************************************************)
\* A value without the marker that is not empty.
IsPlaintext(v) == v # EmptyStr /\ ~StartsWithMarker(v)

\* C4: every version of the row a save writes, the first write of the
\* two-phase create included, and the row itself hold for each password
\* parameter the empty string or a value that carries the '$encrypted$'
\* marker, never a plaintext.
C4_NoPlaintextWritten ==
    LET Clean(config) ==
            \A i \in DOMAIN PasswordFields :
                PasswordFields[i] \in DOMAIN config
                    => \/ config[PasswordFields[i]] = EmptyStr
                       \/ StartsWithMarker(config[PasswordFields[i]])
    IN /\ \A i \in DOMAIN writes : Clean(writes[i].config)
       /\ row.exists => Clean(row.config)

\* A create with a plaintext token: the first write holds the empty string,
\* the second the ciphertext.
C4_Witness ==
    /\ op = "save"
    /\ lastSave.kind = "create"
    /\ exc = "none"
    /\ IsPlaintext(lastSave.nt.config["token"])
    /\ Len(writes) = 2
    /\ writes[1].config["token"] = EmptyStr
    /\ StartsWithMarker(writes[2].config["token"])
    /\ writes[2].config["token"] = <<MARK, EncryptionKey(NewPk, "token")>> \o lastSave.nt.config["token"]

\* C5: display_notification_configuration shows every password parameter
\* that is present as the mask '$encrypted$', whatever state the object is
\* in (constructed and not yet saved, after a create, after an update, after
\* a send), and leaves notification_configuration as it was.
C5_DisplayMasksSensitive ==
    op = "display"
        => \A i \in DOMAIN PasswordFields :
              PasswordFields[i] \in DOMAIN nt.config
                  => /\ ~IsPlaintext(displayed[PasswordFields[i]])
                     /\ displayed[PasswordFields[i]] \in {Mask, EmptyStr}

\* The part of C5 the code keeps: a display changes neither the object nor
\* the row.
C5_DisplayChangesNothing == [][op' = "display" => (nt' = nt /\ row' = row)]_vars

(***************************************************************************)
(* Properties of the dispatch, continued (DispatchSpec)                    *)
(***************************************************************************)
\* C6: when get_notification_templates raises, returns None or an empty
\* dict, or lists nothing under the kind of the status, the call returns
\* without raising and produces no Notification, no callback and no send,
\* also once the transaction has ended.
C6_NoTemplatesNoNotifications ==
    (/\ phase # "idle"
     /\ call.status \in ValidStatuses
     /\ \/ call.resolution.raises
        \/ ~Truthy(call.resolution.value)
        \/ ResolvedList(call.resolution, call.status) = << >>)
        => /\ call.exc = "none"
           /\ call.get_called
           /\ call.built = << >>
           /\ NothingProduced

\* A resolution that raises for an event source whose own methods would fail
\* too, in a transaction that committed.
C6_Witness ==
    /\ phase = "committed"
    /\ call.status = "failed"
    /\ call.resolution.raises
    /\ call.job.impl = "RuntimeError"
    /\ call.exc = "none"

\* The first template of the iteration whose message cannot be built (0 when
\* every build succeeds).
RECURSIVE FirstFailing(_)
FirstFailing(i) ==
    IF i > Len(call.order) THEN 0
    ELSE IF build_notification_message(call.job, Templates[call.order[i]], call.status).exc # "none"
    THEN call.order[i]
    ELSE FirstFailing(i + 1)

\* C7: when the build of the message fails for a resolved template, the call
\* ends with an exception that reaches the caller, and there is neither a
\* Notification nor a callback for that template, also after a commit.
C7_BuildFailurePropagates ==
    (phase # "idle" /\ Iterated /\ FirstFailing(1) # 0)
        => /\ call.exc \in {"RuntimeError", "TypeError", "ZeroDivisionError"}
           /\ \A i \in NewNotifications :
                 notifications[i].notification_template # FirstFailing(1)
           /\ \A i \in DOMAIN on_commit : on_commit[i].local_nt # FirstFailing(1)

\* An event source that lacks an attribute the build uses, with a template to
\* notify: the handler's own formatting raises TypeError.
C7_Witness ==
    /\ phase = "committed"
    /\ call.job.impl = "AttributeError"
    /\ Iterated
    /\ ResolvedList(call.resolution, call.status) = <<1>>
    /\ call.exc = "TypeError"
    /\ NewNotifications = {}

\* The event kind of a status, as the specification gives it.
KindOfStatus(status) ==
    CASE status = "running" -> "started"
      [] status = "succeeded" -> "success"
      [] status = "failed" -> "error"

\* C8: once the callbacks of a call that returned normally have run, the
\* Notifications it created are one per template listed under the kind of
\* the status (started for running, success for succeeded, error for failed)
\* and none for a template listed only under another kind; each is pending,
\* with an empty error, notifications_sent 0 and the template's
\* notification_type, and for the template whose messages give
\* 'Job {{ job.id }} started' and 'Job {{ job.id }} failed' the subject is
\* that text with the job's id in it.
C8_StatusSelectsKind ==
    (CallbacksRan /\ call.exc = "none" /\ Iterated)
        => LET listed == Range(DictGet(call.resolution.value, KindOfStatus(call.status), << >>))
           IN /\ {notifications[i].notification_template : i \in NewNotifications} = listed
              /\ Cardinality(NewNotifications) = Cardinality(listed)
              /\ \A i \in NewNotifications :
                    LET n == notifications[i]
                    IN /\ n.status = "pending"
                       /\ n.error = ""
                       /\ n.notifications_sent = 0
                       /\ n.notification_type = Templates[n.notification_template].notification_type
                       /\ (n.notification_template = 1 /\ call.status = "failed")
                             => n.subject = "Job " \o ToString(call.job.id) \o " failed"
                       /\ (n.notification_template = 1 /\ call.status = "running")
                             => n.subject = "Job " \o ToString(call.job.id) \o " started"

\* Status failed, template 1 under error and template 2 only under the other
\* kinds: one Notification, with the subject 'Job 42 failed'.
C8_Witness ==
    /\ phase = "committed"
    /\ call.exc = "none"
    /\ call.status = "failed"
    /\ call.resolution.value = [started |-> <<2>>, success |-> <<2>>, error |-> <<1>>]
    /\ Len(notifications) = 1
    /\ notifications[1].notification_template = 1
    /\ notifications[1].subject = "Job 42 failed"
    /\ notifications[1].status = "pending"

(***************************************************************************)
(* Properties of the template's messages (MsgSpec)                         *)
(***************************************************************************)
\* Whether a save writes the messages column.
WritesMessages(uf) == ~uf.given \/ "messages" \in uf.fields

\* A messages value with the three kinds as keys, each None or an entry of
\* 'message' and 'body'.
HasAllKinds(messages) ==
    /\ ~IsNone(messages)
    /\ DOMAIN messages = KindSet
    /\ \A k \in KindSet :
          IsNone(messages[k]) \/ DOMAIN messages[k] \subseteq Range(MsgTypes)

\* An update that just ran to its end and wrote the messages column, with
\* neither the stored nor the incoming messages None.
MergedUpdate ==
    /\ op = "save"
    /\ exc = "none"
    /\ lastSave.kind = "update"
    /\ WritesMessages(lastSave.uf)
    /\ ~IsNone(lastSave.row.messages)
    /\ ~IsNone(lastSave.nt.messages)

C10_SubFieldMerge ==
    MergedUpdate =>
        LET old == lastSave.row.messages
            new == lastSave.nt.messages
        IN /\ \A k \in KindSet :
                (Truthy(DictGet(new, k, EmptyDict)) /\ Truthy(DictGet(old, k, EmptyDict)))
                    => \A mt \in Range(MsgTypes) :
                          /\ mt \in DOMAIN new[k] => row.messages[k][mt] = new[k][mt]
                          /\ (mt \notin DOMAIN new[k] /\ Truthy(DictGet(old[k], mt, NoneVal)))
                                => row.messages[k][mt] = old[k][mt]
                          /\ (mt \notin DOMAIN new[k] /\ mt \notin DOMAIN old[k])
                                => mt \notin DOMAIN row.messages[k]
           /\ (/\ DOMAIN new = {"success"}
               /\ DOMAIN new["success"] = {"body"}
               /\ Truthy(DictGet(old, "started", EmptyDict))
               /\ "message" \in DOMAIN old["started"])
                    => /\ row.messages["started"] = old["started"]
                       /\ Truthy(row.messages["started"]["message"])

\* The stored success entry has both sub-fields and started.message is set;
\* the update gives only success.body.
C10_Witness ==
    /\ MergedUpdate
    /\ lastSave.nt.messages = [success |-> [body |-> B1]]
    /\ DictGet(lastSave.row.messages, "started", NoneVal) = [message |-> M1]
    /\ DictGet(lastSave.row.messages, "success", NoneVal) = [message |-> M2, body |-> B2]
    /\ row.messages["success"] = [message |-> M2, body |-> B1]
    /\ row.messages["started"] = [message |-> M1]

\* An update that ran to its end, with incoming messages that are a dict.
UpdateWithMessages ==
    /\ op = "save"
    /\ exc = "none"
    /\ lastSave.kind = "update"
    /\ ~IsNone(lastSave.nt.messages)
    /\ ~IsNone(lastSave.row.messages)

UpdateWritingMessages ==
    /\ op = "save"
    /\ exc = "none"
    /\ lastSave.kind = "update"
    /\ WritesMessages(lastSave.uf)

\* The update saved messages equal to the stored ones.
ResavedSameMessages ==
    /\ UpdateWritingMessages
    /\ lastSave.nt.messages = lastSave.row.messages

\* The row's messages after the same update is applied once more.
SecondApplication ==
    save([nt EXCEPT !.messages = lastSave.nt.messages], row, lastSave.uf).row.messages

\* The same update applied once more leaves the row's messages as they are.
SecondApplicationSame == UpdateWritingMessages => SecondApplication = row.messages

\* A dict with None under every kind it lacks.
WithMissingKinds(messages) ==
    [k \in KindSet |-> IF k \in DOMAIN messages THEN messages[k] ELSE NoneVal]

SavedPlaintextToken ==
    /\ op = "save"
    /\ exc = "none"
    /\ recipient_parameter \in DOMAIN lastSave.nt.config
    /\ "token" \in DOMAIN lastSave.nt.config
    /\ IsPlaintext(lastSave.nt.config["token"])

\* C13: a send that follows a save (a create or an update) of a plaintext p
\* in the password parameter calls the backend with exactly p for it.
C13_SendPassesSavedPlaintext ==
    [][(SavedPlaintextToken /\ op' = "send")
          => /\ sent'.call.called
             /\ sent'.call.params["token"] = lastSave.nt.config["token"]]_vars

\* The object was created with p1 (its _saved_config_token), the row holds the
\* ciphertext of p2 from an update, and the send just done gave the backend p2.
C13_Witness ==
    /\ op = "send"
    /\ DictGet(nt.saved, "token", EmptyStr) = Plain1
    /\ exc = "none"
    /\ sent.call.called
    /\ "token" \in DOMAIN sent.call.params
    /\ sent.call.params["token"] = Plain2
    /\ row.config["token"] = <<MARK, EncryptionKey(NewPk, "token")>> \o Plain2

\* An update that ran to its end on an object whose configuration has the
\* password parameter.
UpdateWithToken ==
    /\ op = "save"
    /\ exc = "none"
    /\ lastSave.kind = "update"
    /\ "token" \in DOMAIN lastSave.nt.config

\* Whether the caller's update_fields let the configuration column be written.
WritesConfig(uf) == ~uf.given \/ "notification_configuration" \in uf.fields

\* C14: an update persists a password value that carries the marker as it
\* is, so saving an object again whose configuration is the stored one
\* leaves the stored configuration identical; a password value without the
\* marker is persisted in encrypted form, whatever update_fields names.
C14_MarkedValuePassesThrough ==
    UpdateWithToken =>
        LET value == lastSave.nt.config["token"]
        IN /\ (StartsWithMarker(value) /\ WritesConfig(lastSave.uf))
                 => row.config["token"] = value
           /\ (StartsWithMarker(value) /\ ~WritesConfig(lastSave.uf))
                 => row.config = lastSave.row.config
           /\ lastSave.nt.config = lastSave.row.config
                 => row.config = lastSave.row.config
           /\ IsPlaintext(value)
                 => row.config["token"] = <<MARK, EncryptionKey(nt.pk, "token")>> \o value

\* An object saved again with the ciphertext of the row in its configuration.
C14_Witness ==
    /\ UpdateWithToken
    /\ WritesConfig(lastSave.uf)
    /\ lastSave.nt.config = lastSave.row.config
    /\ lastSave.nt.config["token"] = <<MARK, EncryptionKey(NewPk, "token")>> \o Plain1
    /\ row.config["token"] = lastSave.nt.config["token"]
    /\ Len(writes) = 1

(***************************************************************************)
(* Properties of the projection (ContextSpec)                              *)
(***************************************************************************)
\* Whether every key of a projected mapping is named by the whitelist at its
\* position: under a subtree entry the value is a mapping contained in the
\* entry's own whitelist, under a leaf entry the value has no keys of its own.
RECURSIVE Contained(_, _)
Contained(kids, whitelisted_fields) ==
    \A k \in DOMAIN kids :
        \E i \in DOMAIN whitelisted_fields :
            /\ whitelisted_fields[i].name = k
            /\ IF whitelisted_fields[i].leaf
               THEN kids[k].leaf
               ELSE /\ ~kids[k].leaf
                    /\ Contained(kids[k].kids, whitelisted_fields[i].sub)

\* The same down to the whitelisted leaves, whose values are not looked into.
RECURSIVE ContainedAboveLeaves(_, _)
ContainedAboveLeaves(kids, whitelisted_fields) ==
    \A k \in DOMAIN kids :
        \E i \in DOMAIN whitelisted_fields :
            /\ whitelisted_fields[i].name = k
            /\ whitelisted_fields[i].leaf
                  \/ (~kids[k].leaf /\ ContainedAboveLeaves(kids[k].kids, whitelisted_fields[i].sub))

\* C15: context(record)['job'] has no key, at any depth, that the whitelist
\* does not name at that position, the keys inside the value of a
\* whitelisted field included.
C15_WhitelistContainment ==
    ~IsNone(projected) => Contained(projected.kids["job"].kids, JOB_FIELDS_WHITELIST)

\* The part of C15 the code keeps: no key that the whitelist does not name
\* appears at a position the whitelist walks; the value of a whitelisted leaf
\* is copied whole.
C15_ContainedAboveLeaves ==
    ~IsNone(projected)
        => /\ ContainedAboveLeaves(projected.kids["job"].kids, JOB_FIELDS_WHITELIST)
           /\ "extra_vars" \notin DOMAIN projected.kids["job"].kids

\* C19: send gives the backend the value of the recipient parameter as the
\* list of recipients (one str wrapped into a list, a list as it is), the
\* value of the sender parameter or None, and as constructor parameters the
\* configuration (password values decrypted) without recipient and sender,
\* plus the default of every parameter that is absent and declares one; no
\* parameter the configuration has is replaced by its default, and send
\* returns what send_messages returned.
C19_BackendCall ==
    [][(op' = "send" /\ sent'.call.called)
          => LET cfg == nt.config
                 params == sent'.call.params
                 rest == DOMAIN cfg \ {recipient_parameter, sender_parameter}
             IN /\ recipient_parameter \in DOMAIN cfg
                /\ sent'.call.recipients = IF cfg[recipient_parameter].list
                                           THEN cfg[recipient_parameter].val
                                           ELSE <<cfg[recipient_parameter].val>>
                /\ sender_parameter \in DOMAIN cfg
                      => sent'.call.sender = cfg[sender_parameter]
                /\ sender_parameter \notin DOMAIN cfg => IsNone(sent'.call.sender)
                /\ \A f \in rest :
                      /\ f \in DOMAIN params
                      /\ params[f] = IF init_parameters[f].type = "password"
                                     THEN decrypt_field(nt.pk, cfg, f)
                                     ELSE cfg[f]
                /\ \A f \in DOMAIN params \ rest :
                      /\ "default" \in DOMAIN init_parameters[f]
                      /\ params[f] = init_parameters[f].default
                /\ \A f \in DOMAIN init_parameters \ DOMAIN cfg :
                      "default" \in DOMAIN init_parameters[f] => f \in DOMAIN params
                /\ sent'.call.subject = SendSubject
                /\ sent'.call.body = SendBody
                /\ exc' = "none" => sent'.result = [count |-> sent'.call.returned]]_vars

\* A send of the full configuration: both recipients, the sender, the
\* configured color and not its default, and the backend's count returned.
C19_Witness ==
    /\ op = "send"
    /\ exc = "none"
    /\ sent.call.called
    /\ sent.call.recipients = <<"#ops", "#dev">>
    /\ sent.call.sender = <<"awx">>
    /\ sent.call.params = [token |-> Plain1, color |-> <<"red">>]
    /\ sent.result = [count |-> "1"]

\* C20: when decrypting a password value fails, send raises and
\* send_messages is not called; send_messages is called at most once in a
\* send, exactly once when it raises a delivery error (no retry).
C20_DecryptFailureIsFatal ==
    [][op' = "send"
          => /\ sent'.call.attempts <= 1
             /\ ("token" \in DOMAIN nt.config /\ decrypt_fails(nt.pk, nt.config, "token"))
                   => /\ exc' = "InvalidToken"
                      /\ ~sent'.call.called
                      /\ sent'.call.attempts = 0
                      /\ IsNone(sent'.result)
             /\ exc' = "DeliveryError" => sent'.call.attempts = 1]_vars

\* A send of an object whose token is the bare mask: it raised, without a
\* call of the backend.
C20_Witness ==
    /\ op = "send"
    /\ exc = "InvalidToken"
    /\ "token" \in DOMAIN nt.config
    /\ nt.config["token"] = Mask
    /\ ~sent.call.called
    /\ sent.call.attempts = 0

(***************************************************************************)
(* Properties of the rendering and of a failed build (DispatchSpec)        *)
(***************************************************************************)
\* The context of the call's job.
CallContext == context(call.job, Serialize(call.job))

\* The text a template of the call's kind has for 'message' or 'body', or None.
TemplateText(t, msg_type) ==
    LET messages == Templates[t].messages
        entry == IF Truthy(messages)
                 THEN DictGet(messages, KindOfStatus(call.status), NoneVal)
                 ELSE NoneVal
    IN IF Truthy(entry) THEN DictGet(entry, msg_type, NoneVal) ELSE NoneVal

\* What rendering that text raises: "none" when there is no text.
RenderError(t, msg_type) ==
    IF Truthy(TemplateText(t, msg_type))
    THEN Render(TemplateText(t, msg_type), CallContext).exc
    ELSE "none"

\* The templates of the call raise nothing but the three errors of the claim.
OnlyCaughtErrors ==
    \A t \in Resolved : \A mt \in Range(MsgTypes) :
        RenderError(t, mt) \in CaughtRenderErrors \cup {"none"}

\* C16: a TemplateSyntaxError, UndefinedError or SecurityError in the
\* rendering of a subject or body does not leave build_notification_message:
\* the call returns normally, and once its callbacks ran each resolved
\* template has its Notification and its send, with '' for a field whose
\* rendering failed and the rendered text for the other field. The same
\* holds of the template's own build_notification_message.
C16_RenderErrorsSwallowed ==
    (phase # "idle" /\ Iterated /\ call.job.impl = "ok" /\ OnlyCaughtErrors)
        => /\ call.exc = "none"
           /\ CallbacksRan =>
                \A t \in Resolved :
                    \E i \in NewNotifications :
                        LET n == notifications[i]
                        IN /\ n.notification_template = t
                           /\ \E k \in DOMAIN tasks : tasks[k].ids = <<i>>
                           /\ RenderError(t, "message") # "none" => n.subject = ""
                           /\ (Truthy(TemplateText(t, "message")) /\ RenderError(t, "message") = "none")
                                 => n.subject = Render(TemplateText(t, "message"), CallContext).out
                           /\ RenderError(t, "body") # "none" => n.body["body"] = ""
                           /\ (Truthy(TemplateText(t, "body")) /\ RenderError(t, "body") = "none")
                                 => n.body["body"] = Render(TemplateText(t, "body"), CallContext).out
           /\ \A t \in Resolved :
                (Truthy(TemplateText(t, "message")) /\ Truthy(TemplateText(t, "body")))
                    => LET r == NotificationTemplate_build_notification_message(
                                    Templates[t], KindOfStatus(call.status), CallContext)
                       IN /\ r.exc = "none"
                          /\ RenderError(t, "message") # "none" => r.subject = ""
                          /\ RenderError(t, "body") # "none" => r.body = ""
                          /\ RenderError(t, "body") = "none"
                                => r.body = Render(TemplateText(t, "body"), CallContext).out

\* A committed dispatch of the template whose 'started' subject is malformed
\* and whose body is fine: a Notification with the empty subject and the
\* rendered body, and its send.
C16_Witness ==
    /\ phase = "committed"
    /\ call.status = "running"
    /\ call.exc = "none"
    /\ ResolvedList(call.resolution, call.status) = <<3>>
    /\ RenderError(3, "message") = "TemplateSyntaxError"
    /\ Len(notifications) = 1
    /\ notifications[1].notification_template = 3
    /\ notifications[1].subject = ""
    /\ notifications[1].body["body"] = "inv inv"
    /\ tasks = <<[ids |-> <<1>>, job_id |-> 42]>>

\* C18: when the build fails for one of the resolved templates, the call
\* creates no Notification and enqueues no send for any of its templates,
\* those built before the failing one included.
C18_BuildFailureProducesNothing ==
    (phase # "idle" /\ Iterated /\ FirstFailing(1) # 0)
        => /\ NewNotifications = {}
           /\ tasks = << >>

\* The part of C18 the code keeps: nothing is produced for the failing
\* template and for those after it, and nothing at all when the atomic block
\* the call ran in is rolled back.
C18_NothingFromFailingOn ==
    (phase # "idle" /\ Iterated /\ FirstFailing(1) # 0)
        => /\ \A i \in NewNotifications :
                 \E j \in DOMAIN call.built :
                     /\ call.built[j] = notifications[i].notification_template
                     /\ j < Len(call.built)
           /\ phase = "rolledback" => (NewNotifications = {} /\ tasks = << >>)

(***************************************************************************)
(* Properties of send (Spec)                                               *)
(***************************************************************************)
\* C17: send works on a copy: whether it returns or raises, the object's
\* notification_configuration is afterwards what it was before, recipient
\* and sender parameters and encrypted password values included, and a
\* second send right after a first calls the backend as the first did.
C17_SendLeavesConfigUnchanged ==
    [][/\ op' = "send" => nt'.config = nt.config
       /\ (op = "send" /\ sent.call.called /\ op' = "send") => sent'.call = sent.call]_vars

\* The part of C17 the code keeps: send writes nothing to the row.
C17_SendLeavesRowUnchanged == [][op' = "send" => row' = row]_vars

(***************************************************************************)
(* Properties of the projection, continued (ContextSpec)                   *)
(***************************************************************************)
\* The restriction of a record's fields to a whitelist: the whitelisted names
\* the record has, a leaf with the record's value, a subtree restricted to
\* its own whitelist.
RECURSIVE Restriction(_, _)
Restriction(fields, whitelisted_fields) ==
    LET names == {whitelisted_fields[i].name : i \in DOMAIN whitelisted_fields}
        entry(k) == CHOOSE e \in Range(whitelisted_fields) : e.name = k
    IN [k \in names \cap DOMAIN fields |->
            IF entry(k).leaf THEN fields[k]
            ELSE Mapping(Restriction(fields[k].kids, entry(k).sub))]

\* C21: context(record)['job'] is the restriction of the record to the
\* whitelist (a whitelisted leaf with the record's value, nothing for a
\* whitelisted field the record lacks, a whitelisted subtree projected in the
\* same way), the record is left as it was, and the context has besides
\* 'job' the entries job_friendly_name, url and job_summary_dict.
C21_ExactRestriction ==
    [][~IsNone(projected')
          => /\ record' = record
             /\ ~projected'.leaf
             /\ DOMAIN projected'.kids = {"job", "job_friendly_name", "url", "job_summary_dict"}
             /\ projected'.kids["job"] = Mapping(Restriction(record, JOB_FIELDS_WHITELIST))
             /\ projected'.kids["job_friendly_name"] = Leaf(get_notification_friendly_name(ContextJob))
             /\ projected'.kids["url"] = Leaf(get_ui_url(ContextJob))]_vars

\* A record without 'name', with extra_vars, an inventory that has a field
\* outside the whitelist and labels whose results have fields: the context
\* has no 'name', neither of the fields outside the whitelist, and the
\* results as the record has them.
C21_Witness ==
    /\ ~IsNone(projected)
    /\ DOMAIN record = {"id", "extra_vars", "summary_fields"}
    /\ DOMAIN record["summary_fields"].kids = {"inventory", "labels", "credentials"}
    /\ "variables" \in DOMAIN record["summary_fields"].kids["inventory"].kids
    /\ ~record["summary_fields"].kids["labels"].kids["results"].leaf
    /\ DOMAIN projected.kids["job"].kids = {"id", "summary_fields"}
    /\ projected.kids["job"].kids["id"] = Leaf("42")
    /\ projected.kids["job"].kids["summary_fields"].kids["inventory"]
          = Mapping([id |-> Leaf("17"), name |-> Leaf("inv")])
    /\ projected.kids["job"].kids["summary_fields"].kids["labels"]
          = record["summary_fields"].kids["labels"]

(***************************************************************************)
(* Properties of the default subject (DispatchSpec)                        *)
(***************************************************************************)
\* The template has no subject text for the kind of the call: messages is
\* null, the kind's entry is null, or its 'message' is absent, null or empty.
NoCustomSubject(t) == ~Truthy(TemplateText(t, "message"))

\* C22 as stated: a Notification of a template without a custom subject has
\* the non-empty default subject and no 'body' entry in its body, and a
\* Notification has the subject '' only when the rendering of a non-empty
\* subject template failed.
C22_DefaultSubjectAndNoBody ==
    (phase # "idle" /\ Iterated)
        => \A i \in NewNotifications :
              LET n == notifications[i]
                  t == n.notification_template
              IN /\ NoCustomSubject(t)
                    => /\ n.subject = DefaultSubject(call.job, call.status)
                       /\ n.subject # ""
                       /\ "body" \notin DOMAIN n.body
                 /\ n.subject = ""
                    => /\ ~NoCustomSubject(t)
                       /\ RenderError(t, "message") # "none"

\* C22, amended: a Notification of a template without a custom subject has
\* the non-empty default subject; its body has a 'body' entry exactly when
\* the kind's entry has a non-empty 'body' template, with or without a custom
\* subject; and a Notification has the subject '' only for a non-empty
\* subject template whose rendering failed or produced no text.
C22_DefaultSubject ==
    (phase # "idle" /\ Iterated)
        => \A i \in NewNotifications :
              LET n == notifications[i]
                  t == n.notification_template
              IN /\ NoCustomSubject(t)
                    => /\ n.subject = DefaultSubject(call.job, call.status)
                       /\ n.subject # ""
                 /\ "body" \in DOMAIN n.body <=> Truthy(TemplateText(t, "body"))
                 /\ n.subject = ""
                    => /\ ~NoCustomSubject(t)
                       /\ \/ RenderError(t, "message") # "none"
                          \/ Render(TemplateText(t, "message"), CallContext).out = ""

\* A committed dispatch of the template that has only a body for 'started'
\* and of the template whose messages is null: both Notifications have the
\* default subject, the first with the rendered body and the second without.
C22_Witness ==
    /\ phase = "committed"
    /\ call.status = "running"
    /\ call.exc = "none"
    /\ ResolvedList(call.resolution, call.status) = <<4, 5>>
    /\ IsNone(Templates[5].messages)
    /\ "message" \notin DOMAIN Templates[4].messages["started"]
    /\ \E i, j \in NewNotifications :
          /\ notifications[i].notification_template = 4
          /\ notifications[i].subject = "Job #42 'demo' running: https://towerhost/#/jobs/42"
          /\ notifications[i].body["body"] = "run demo"
          /\ notifications[j].notification_template = 5
          /\ notifications[j].subject = notifications[i].subject
          /\ "body" \notin DOMAIN notifications[j].body

(***************************************************************************)
(* Properties of the callbacks of one dispatch (DispatchSpec)              *)
(***************************************************************************)
\* The number of rows the Notification table had before the call.
PriorRows == Len(notifications) - Cardinality(NewNotifications)

\* C23: the k-th Notification a dispatch creates is generated from the k-th
\* template of the loop and has the type and recipients of that template and
\* the subject and body built for it, and its id is what the k-th send got;
\* so with several templates none has the values of the template processed
\* last, and once the callbacks of a call that returned normally ran, each
\* resolved template has exactly one Notification.
C23_CallbacksKeepOwnValues ==
    (phase # "idle" /\ Iterated)
        => /\ Cardinality(NewNotifications) <= Len(call.built)
           /\ Len(tasks) = Cardinality(NewNotifications)
           /\ \A k \in 1..Cardinality(NewNotifications) :
                 LET n == notifications[PriorRows + k]
                     t == call.built[k]
                     m == build_notification_message(call.job, Templates[t], call.status)
                 IN /\ PriorRows + k \in NewNotifications
                    /\ n.notification_template = Templates[t].pk
                    /\ n.notification_type = Templates[t].notification_type
                    /\ n.recipients = Templates[t].recipients
                    /\ n.subject = m.subject
                    /\ n.body = m.body
                    /\ tasks[k] = [ids |-> <<n.id>>, job_id |-> call.job.id]
           /\ (CallbacksRan /\ call.exc = "none")
                 => /\ Cardinality(NewNotifications) = Cardinality(Resolved)
                    /\ {notifications[i].notification_template : i \in NewNotifications} = Resolved

\* A dispatch inside an atomic block of two templates with different types,
\* recipients, subjects and bodies, after the commit: the first Notification
\* is of the template the loop took first, with its default subject and its
\* rendered body, the second of the template the loop took last.
C23_Witness ==
    /\ phase = "committed"
    /\ in_atomic
    /\ call.status = "running"
    /\ call.exc = "none"
    /\ call.order = <<4, 1>>
    /\ Cardinality(NewNotifications) = 2
    /\ LET a == notifications[PriorRows + 1]
           b == notifications[PriorRows + 2]
       IN /\ a.notification_template = 4
          /\ a.notification_type = "email"
          /\ a.recipients = "['d@e.f']"
          /\ a.subject = "Job #42 'demo' running: https://towerhost/#/jobs/42"
          /\ a.body["body"] = "run demo"
          /\ b.notification_template = 1
          /\ b.notification_type = "slack"
          /\ b.recipients = "['#ops']"
          /\ b.subject = "Job 42 started"
          /\ "body" \notin DOMAIN b.body
          /\ tasks = <<[ids |-> <<a.id>>, job_id |-> 42], [ids |-> <<b.id>>, job_id |-> 42]>>

(***************************************************************************)
(* Properties of the create of a template with a marked value (Spec)       *)
(***************************************************************************)
\* A create that returned, of an object whose configuration has the token.
CreateWithToken ==
    /\ op = "save"
    /\ exc = "none"
    /\ lastSave.kind = "create"
    /\ "token" \in DOMAIN lastSave.nt.config

\* C24: a create of an object whose password value already carries the
\* marker persists that value as it was supplied: after the two writes the
\* row has the supplied value, neither encrypted again nor replaced by ''.
C24_MarkedValueSurvivesCreate ==
    (CreateWithToken /\ StartsWithMarker(lastSave.nt.config["token"]))
        => row.config["token"] = lastSave.nt.config["token"]

====
